---------------------------- MODULE Spec2Model ----------------------------
(***************************************************************************)
(* A model of diagnnose's activation extraction bookkeeping, its           *)
(* contrastive downstream evaluation (DownstreamTask in                    *)
(* downstream/tasks/task.py, warstadt_downstream in                        *)
(* downstream/warstadt/downstream.py) and its initial-state factory        *)
(* (InitStates in activations/init_states.py).                             *)
(*                                                                         *)
(* Conventions.                                                            *)
(*  - A corpus is a sequence of items; item k (1-based in TLA+) has        *)
(*    sen_idx = k - 1.  Token positions w_idx are 0-based as in the code.  *)
(*  - A row of an activation tensor is the pair (sen_idx, w_idx) of the    *)
(*    sentence and position whose state it holds; its numeric value is     *)
(*    given by the (opaque) language model, see ActValue.                  *)
(*  - Tensors of floats are modelled over the integers; comparisons and    *)
(*    the log-softmax are those of exact real arithmetic.                  *)
(***************************************************************************)
EXTENDS Integers, Sequences, FiniteSets, TLC

VARIABLES
    pc,                  \* position of the running operation
    corpus,              \* the corpus: a sequence of items
    \* ---- extraction (ActivationExtractor / ActivationStore) ----
    sel,                 \* the SelectionFunc in use: [name, n]
    batch_size,          \* the extractor's batch size
    n_done,              \* sentences processed so far
    store,               \* rows appended to the slot, in order
    ranges,              \* ActivationRanges: [(start, stop)] per sentence
    \* ---- language model (external) ----
    hx,                  \* sen_idx -> top-layer hx at the last token of `sen`
    chx,                 \* sen_idx -> top-layer hx at the last token of `counter_sen`
    decoder_w,           \* token id -> weight row
    decoder_b,           \* token id -> bias
    \* ---- DownstreamTask.run_single_corpus / warstadt_downstream ----
    opts,                \* ignore_unk, use_full_model_probs, counter, add_dec_bias
    batch,               \* warstadt: the iterator's batch, a sequence of sen_idx
    activations,         \* rows returned by calc_final_hidden(corpus)
    counter_activations, \* rows returned for the counter sentences
    mask,                \* the unk mask, one entry per sentence
    warnings,            \* tokens named by the warnings emitted, in order
    acc_activations,     \* activations[mask]
    acc_counter_activations, \* counter_activations[mask]
    token_ids,           \* token_ids[mask]: entries [sen_idx, id]
    counter_token_ids,   \* counter_token_ids[mask]: entries [sen_idx, id]
    indicators,          \* the compared tensor (score >= counter score)
    result,              \* what the evaluation returned or raised
    \* ---- InitStates ----
    num_layers,          \* self.num_layers
    sizes,               \* self.sizes: layer -> [h, c]
    init_lstm_states_path, \* self.init_lstm_states_path: "None" or a path
    init_batch_size,     \* self.batch_size (NoBatchSize for None)
    use_np_arrays,       \* self.use_np_arrays
    init_states,         \* the bundle create() loaded or built
    verr,                \* what _validate raised, if it ran
    \* ---- DownstreamTask.run ----
    corpora,             \* self.corpora: the subtasks in dict order
    results,             \* results: subtask -> entry
    calls,               \* the calls of run_single_corpus made, in order
    subtask_i,           \* position of the loop over self.corpora.items()
    condition_j          \* position of the loop over subtask_corpora.items()

xvars == <<sel, batch_size, n_done, store, ranges>>
mvars == <<hx, chx, decoder_w, decoder_b>>
tvars == <<opts, batch, activations, counter_activations, mask, warnings,
           acc_activations, acc_counter_activations, token_ids,
           counter_token_ids, indicators, result>>
ivars == <<num_layers, sizes, init_lstm_states_path, init_batch_size, use_np_arrays,
           init_states, verr>>
rvars == <<corpora, results, calls, subtask_i, condition_j>>
vars == <<pc, corpus, xvars, mvars, tvars, ivars, rvars>>

-----------------------------------------------------------------------------
(* Bounds of the model *)

\* Longest sentence of an extraction corpus (Scenario A needs 3 and 5).
MaxSenLen == 5
\* Most sentences in an extraction corpus.
MaxSens == 3
\* Largest n of first_n(n) / nth_token(n), and largest batch size.
MaxN == 2
\* Most sentences in a corpus of the vocabulary-coverage runs (Scenario B has 3).
MaxUnkSens == 3
\* Most sentences in a corpus of the accuracy runs.
MaxAccSens == 2
\* Most sentences in a corpus of the warstadt_downstream runs.
MaxWarstadtSens == 2
\* InitStates: layers of the model, size of a state vector, batch size
MaxLayers == 2
MaxSize == 2
MaxBatch == 2
\* DownstreamTask.run: subtasks of a task, conditions of a subtask
MaxSubtasks == 2
MaxConditions == 2

-----------------------------------------------------------------------------
(* Generic helpers *)

Range(s) == {s[k] : k \in 1..Len(s)}

RECURSIVE SumSeq(_)
SumSeq(s) == IF s = <<>> THEN 0 ELSE s[1] + SumSeq(Tail(s))

RECURSIVE Flatten(_)
Flatten(ss) == IF ss = <<>> THEN <<>> ELSE ss[1] \o Flatten(Tail(ss))

\* The subsequence of s at the indices where keep is TRUE (tensor[mask]).
RECURSIVE MaskSelect(_, _)
MaskSelect(s, keep) ==
    IF s = <<>> THEN <<>>
    ELSE (IF keep[1] THEN <<s[1]>> ELSE <<>>) \o MaskSelect(Tail(s), Tail(keep))

\* All sequences over S of length lo..hi.
SeqsOf(S, lo, hi) == UNION {[1..n -> S] : n \in lo..hi}

\* The permutations of the set S, as sequences.
PermsOf(S) ==
    {p \in [1..Cardinality(S) -> S] : \A a, b \in 1..Cardinality(S) : a # b => p[a] # p[b]}

-----------------------------------------------------------------------------
(* Corpus items.  An item carries the fields the downstream tasks read:    *)
(* sen, counter_sen (token sequences), token, counter_token (candidate     *)
(* words; the warstadt corpus calls the first one npi).                    *)

Item(s, cs, t, ct) == [sen |-> s, counter_sen |-> cs, token |-> t, counter_token |-> ct]

\* The torchtext Example seen by a SelectionFunc: the item with its sen_idx.
Example(k) == [sen |-> corpus[k].sen, counter_sen |-> corpus[k].counter_sen,
               sen_idx |-> k - 1]

-----------------------------------------------------------------------------
(* activations/selection_funcs.py *)

return_all_never(w_idx, item) == FALSE

return_all(w_idx, item) == TRUE

final_token_first(w_idx, item) == w_idx = 0

final_token(w_idx, item) == Len(item.sen) = w_idx + 1

first_n_inclusive(n, w_idx, item) == item.sen_idx <= n

first_n(n, w_idx, item) == item.sen_idx < n

nth_token(n, w_idx, item) == w_idx = n

in_sen_ids(sen_ids, w_idx, item) == item.sen_idx \in sen_ids

\* task.py run_single_corpus: the selection_func of the counter sentences.
counter_final_token(w_idx, item) == Len(item.counter_sen) = w_idx + 1

\* A SelectionFunc value: the function's name and its captured variable
\* (n of first_n and nth_token, sen_ids of in_sen_ids).
SelectionFunc(s, w_idx, item) ==
    CASE s.name = "return_all"  -> return_all(w_idx, item)
      [] s.name = "final_token" -> final_token(w_idx, item)
      [] s.name = "first_n"     -> first_n(s.n, w_idx, item)
      [] s.name = "nth_token"   -> nth_token(s.n, w_idx, item)
      [] s.name = "in_sen_ids"  -> in_sen_ids(s.ids, w_idx, item)
      [] s.name = "counter_final_token" -> counter_final_token(w_idx, item)

SelReturnAll == [name |-> "return_all", n |-> 0, ids |-> {}]
SelFinalToken == [name |-> "final_token", n |-> 0, ids |-> {}]
SelCounterFinalToken == [name |-> "counter_final_token", n |-> 0, ids |-> {}]

-----------------------------------------------------------------------------
(* The extractor (diagnnose.extract: simple_extract / Extractor).  Its     *)
(* code is not among the source files; it is modelled from the             *)
(* specification, section 4.3: the corpus is partitioned into batches, a   *)
(* batch may be reordered internally (grouped by length), the model is     *)
(* invoked once per batch, the original sentence order is restored, the    *)
(* SelectionFunc is applied per (position, sentence) and the retained      *)
(* vectors are appended in corpus order while each sentence's (start,      *)
(* stop) range is recorded.                                                *)

SeqFromTo(a, b) == [k \in 1..(b - a + 1) |-> a + k - 1]

\* The orders a batch of sentences (sen_idx values) may be given internally:
\* sorted by the length of the column read, either way, ties in any order.
BatchOrders(idxs, column) ==
    {p \in PermsOf(Range(idxs)) :
        \/ \A k \in 1..(Len(p) - 1) :
              Len(corpus[p[k] + 1][column]) >= Len(corpus[p[k + 1] + 1][column])
        \/ \A k \in 1..(Len(p) - 1) :
              Len(corpus[p[k] + 1][column]) <= Len(corpus[p[k + 1] + 1][column])}

\* invoke(tokenBatch): for the k-th sentence handed in, one state vector per
\* position of that sentence.
ModelOutputs(order, column) ==
    [k \in 1..Len(order) |->
        [p \in 1..Len(corpus[order[k] + 1][column]) |->
            [sen_idx |-> order[k], w_idx |-> p - 1]]]

RestoreOrderSkipped(outputs, order, idxs) == outputs

\* The outputs put back in the order of idxs (corpus order).
RestoreOrder(outputs, order, idxs) ==
    [j \in 1..Len(idxs) |-> outputs[CHOOSE k \in 1..Len(order) : order[k] = idxs[j]]]

\* The vectors of one sentence that the SelectionFunc retains: the predicate
\* is asked about (position, sentence) for each position in increasing order.
RECURSIVE SelectRows(_, _, _, _)
SelectRows(rows, s, item, w_idx) ==
    IF rows = <<>> THEN <<>>
    ELSE (IF SelectionFunc(s, w_idx, item) THEN <<rows[1]>> ELSE <<>>)
         \o SelectRows(Tail(rows), s, item, w_idx + 1)

\* Appending one batch: the new store and the new ranges.
RECURSIVE AppendBatch(_, _, _, _, _)
AppendBatch(st, rg, restored, idxs, s) ==
    IF idxs = <<>> THEN [store |-> st, ranges |-> rg]
    ELSE LET kept == SelectRows(restored[1], s, Example(idxs[1] + 1), 0)
         IN AppendBatch(st \o kept, Append(rg, <<Len(st), Len(st) + Len(kept)>>),
                        Tail(restored), Tail(idxs), s)

\* One batch of the extraction loop, the batch being the sentences idxs.
ExtractStep(st, rg, idxs, order, s, column) ==
    AppendBatch(st, rg, RestoreOrder(ModelOutputs(order, column), order, idxs), idxs, s)

\* simple_extract(model, corpus, names, batch_size=len(corpus), selection_func,
\* sen_column): the whole corpus as one batch; the rows of the ActivationStore.
simple_extract(order, s, column) ==
    ExtractStep(<<>>, <<>>, SeqFromTo(0, Len(corpus) - 1), order, s, column).store

-----------------------------------------------------------------------------
(* Values of the variables an operation does not use *)

NoResult == [kind |-> "none", correct |-> 0, total |-> 0, error |-> "none"]
NoOpts == [ignore_unk |-> FALSE, use_full_model_probs |-> TRUE, counter |-> FALSE,
           add_dec_bias |-> FALSE]
NoValidation == [kind |-> "none", text |-> "none", field |-> "none",
                 actual |-> 0, expected |-> 0]
\* batch_size = None
NoBatchSize == 0

XIdle == sel = SelReturnAll /\ batch_size = 1 /\ n_done = 0 /\ store = <<>> /\ ranges = <<>>
MIdle == hx = <<>> /\ chx = <<>> /\ decoder_w = <<>> /\ decoder_b = <<>>
TIdle ==
    /\ opts = NoOpts /\ batch = <<>>
    /\ activations = <<>> /\ counter_activations = <<>>
    /\ mask = <<>> /\ warnings = <<>>
    /\ acc_activations = <<>> /\ acc_counter_activations = <<>>
    /\ token_ids = <<>> /\ counter_token_ids = <<>>
    /\ indicators = <<>> /\ result = NoResult
IIdle ==
    /\ num_layers = 0 /\ sizes = <<>> /\ init_lstm_states_path = "None"
    /\ init_batch_size = NoBatchSize /\ use_np_arrays = FALSE
    /\ init_states = <<>> /\ verr = NoValidation
RIdle ==
    /\ corpora = <<>> /\ results = <<>> /\ calls = <<>>
    /\ subtask_i = 1 /\ condition_j = 1

-----------------------------------------------------------------------------
(* Extraction runs: any corpus of up to MaxSens non-empty sentences of up   *)
(* to MaxSenLen tokens, any SelectionFunc of selection_funcs.py, any batch  *)
(* size.  The tokens themselves play no part in the bookkeeping.            *)

ExtractionCorpora ==
    UNION {[1..n -> {Item(s, <<>>, "a", "b") : s \in SeqsOf({"a"}, 1, MaxSenLen)}]
           : n \in 1..MaxSens}

SelectionFuncs ==
    {SelReturnAll, SelFinalToken}
    \cup {[name |-> "first_n", n |-> n, ids |-> {}] : n \in 0..MaxN}
    \cup {[name |-> "nth_token", n |-> n, ids |-> {}] : n \in 0..MaxN}
    \cup {[name |-> "in_sen_ids", n |-> 0, ids |-> ids] : ids \in SUBSET (0..(MaxN - 1))}

InitExtract ==
    /\ pc = "extract"
    /\ corpus \in ExtractionCorpora
    /\ sel \in SelectionFuncs
    /\ batch_size \in 0..MaxN
    /\ n_done = 0 /\ store = <<>> /\ ranges = <<>>
    /\ MIdle /\ TIdle /\ IIdle /\ RIdle

\* The extractor refuses a batch size that is not a positive integer.
ExtractConfigError ==
    /\ pc = "extract"
    /\ batch_size < 1
    /\ pc' = "config_error"
    /\ UNCHANGED <<corpus, xvars, mvars, tvars, ivars, rvars>>

\* One iteration of the extraction loop: the next batch_size sentences.
ExtractBatch ==
    /\ pc = "extract"
    /\ batch_size >= 1
    /\ n_done < Len(corpus)
    /\ LET last == IF n_done + batch_size < Len(corpus)
                   THEN n_done + batch_size ELSE Len(corpus)
           idxs == SeqFromTo(n_done, last - 1)
       IN \E order \in BatchOrders(idxs, "sen") :
             LET r == ExtractStep(store, ranges, idxs, order, sel, "sen")
             IN /\ store' = r.store
                /\ ranges' = r.ranges
                /\ n_done' = last
                /\ pc' = IF last = Len(corpus) THEN "extracted" ELSE "extract"
    /\ UNCHANGED <<corpus, sel, batch_size, mvars, tvars, ivars, rvars>>

NextExtract == ExtractConfigError \/ ExtractBatch

SpecExtract == InitExtract /\ [][NextExtract]_vars

-----------------------------------------------------------------------------
(* C1 *)

\* The number of positions of sentence k (1-based) the SelectionFunc accepts.
SelectedCount(k) ==
    Cardinality({w \in 0..(Len(corpus[k].sen) - 1) : SelectionFunc(sel, w, Example(k))})

ScenarioA ==
    /\ Len(corpus) = 2
    /\ Len(corpus[1].sen) = 3
    /\ Len(corpus[2].sen) = 5
    /\ sel = SelReturnAll

\* What the claim shares with its amendment: well-formed half-open ranges
\* that do not overlap, each as long as the number of selected positions of
\* its sentence, the slot holding the sum of them, and Scenario A.
RangesAccount ==
    /\ Len(ranges) = n_done
    /\ \A k \in 1..Len(ranges) :
          /\ ranges[k][1] <= ranges[k][2]
          /\ ranges[k][2] - ranges[k][1] = SelectedCount(k)
          /\ \A j \in (k + 1)..Len(ranges) : ranges[k][2] <= ranges[j][1]
    /\ Len(store) = SumSeq([k \in 1..Len(ranges) |-> SelectedCount(k)])
    /\ (pc = "extracted" /\ ScenarioA) => ranges = << <<0, 3>>, <<3, 8>> >>

\* C1 as stated: after an extraction run the ranges of a slot are half-open,
\* non-overlapping and STRICTLY increasing in processing order, each as long
\* as the number of positions the predicate selected in its sentence, and the
\* rows of the slot are the sum of those counts.
C1_RangesStrictlyIncreasing ==
    pc = "extracted" =>
        /\ RangesAccount
        /\ \A k \in 1..Len(ranges) : \A j \in (k + 1)..Len(ranges) :
              ranges[k][1] < ranges[j][1]

\* C1 as amended: the ranges are contiguous (the first starts at 0, each
\* starts where the previous one stops), hence non-overlapping and
\* non-decreasing, and strictly increasing after every sentence that selected
\* at least one position; lengths, total and Scenario A as stated.  It holds
\* after every batch, for the sentences processed so far.
C1_RangesContiguous ==
    /\ RangesAccount
    /\ \A k \in 1..Len(ranges) :
          /\ ranges[k][1] = (IF k = 1 THEN 0 ELSE ranges[k - 1][2])
          /\ \A j \in (k + 1)..Len(ranges) :
                SelectedCount(k) > 0 => ranges[k][1] < ranges[j][1]
    /\ pc = "extracted" => n_done = Len(corpus)

\* Scenario A extracted in two batches of one sentence.
C1_Witness ==
    /\ pc = "extracted"
    /\ ScenarioA
    /\ batch_size = 1
    /\ ranges = << <<0, 3>>, <<3, 8>> >>
    /\ Len(store) = 8

-----------------------------------------------------------------------------
(* The language model and the vocabulary (external collaborators).         *)

\* Size of the hidden state vectors.
HiddenSize == 1

\* corpus.vocab.stoi: the vocabulary of Scenario B.
stoi == [a |-> 0, b |-> 1, unk |-> 2]

VocabIds == {stoi[w] : w \in DOMAIN stoi}

\* `w in corpus.vocab.stoi`
InVocab(w) == w \in DOMAIN stoi

\* `corpus.vocab.stoi[w]`.  The vocabulary class is not among the source
\* files; per the specification (4.5, 7) the lookup of an absent token
\* fails with a vocabulary-lookup error.
stoi_getitem(w) ==
    IF InVocab(w) THEN [raised |-> FALSE, id |-> stoi[w]]
    ELSE [raised |-> TRUE, id |-> 0]

ConstVec(v) == [d \in 1..HiddenSize |-> v]

Vectors(S) == [1..HiddenSize -> S]

RECURSIVE DotFrom(_, _, _)
DotFrom(u, v, d) == IF d > Len(u) THEN 0 ELSE u[d] * v[d] + DotFrom(u, v, d + 1)

\* The inner product of two vectors (one entry of a matrix product).
Dot(u, v) == DotFrom(u, v, 1)

\* The state vector a row of an extracted tensor holds: the model's top-layer
\* hx for that sentence and position.  Only the states at the last position
\* are inputs of the model here; every other state is the zero vector.
ActValue(row, column) ==
    IF row.w_idx + 1 = Len(corpus[row.sen_idx + 1][column])
    THEN (IF column = "sen" THEN hx[row.sen_idx + 1] ELSE chx[row.sen_idx + 1])
    ELSE ConstVec(0)

-----------------------------------------------------------------------------
(* torch.nn.functional.log_softmax, as far as the code uses it: the         *)
(* comparison of one entry of log_softmax(la) with the same entry of        *)
(* log_softmax(lb).  In exact arithmetic                                    *)
(*     la[t] - log(sum_j e^la[j]) >= lb[t] - log(sum_j e^lb[j])             *)
(* iff sum_j e^(la[t] + lb[j]) >= sum_j e^(lb[t] + la[j]).                  *)
(* Both sides are sums of integer powers of e; ExpFloor brackets each       *)
(* power, scaled by 10^4, between an integer and its successor.             *)

\* ExpFloor[k + 1] = floor(e^k * 10^4), k = 0..11.
ExpFloor == <<10000, 27182, 73890, 200855, 545981, 1484131, 4034287,
              10966331, 29809579, 81030839, 220264657, 598741417>>

SetMin(S) == CHOOSE x \in S : \A y \in S : x <= y

SameBag(p, q) ==
    \A v \in Range(p) \cup Range(q) :
        Cardinality({k \in DOMAIN p : p[k] = v}) = Cardinality({k \in DOMAIN q : q[k] = v})

\* sum_k e^p[k] >= sum_k e^q[k], for sequences of integers p and q.  A pair
\* the brackets cannot separate has no value (TLC stops on it).
ExpSumGeq(p, q) ==
    LET off == SetMin(Range(p) \cup Range(q))
        lo(s) == SumSeq([k \in DOMAIN s |-> ExpFloor[s[k] - off + 1]])
        hi(s) == SumSeq([k \in DOMAIN s |-> ExpFloor[s[k] - off + 1] + 1])
    IN CASE SameBag(p, q) -> TRUE
         [] ~SameBag(p, q) /\ lo(p) >= hi(q) -> TRUE
         [] ~SameBag(p, q) /\ hi(p) <= lo(q) -> FALSE

IdSeq == SeqFromTo(0, Cardinality(VocabIds) - 1)

\* log_softmax(la)[t] >= log_softmax(lb)[t]; la and lb map token ids to logits.
LogSoftmaxGeq(la, lb, t) ==
    ExpSumGeq([k \in DOMAIN IdSeq |-> la[t] + lb[IdSeq[k]]],
              [k \in DOMAIN IdSeq |-> lb[t] + la[IdSeq[k]]])

-----------------------------------------------------------------------------
(* downstream/tasks/task.py: DownstreamTask *)

Raised(e) == [kind |-> "raised", correct |-> 0, total |-> 0, error |-> e]

\* torch.mean(t.to(torch.float)).item() of a boolean tensor t: the mean of an
\* empty tensor is nan.
MeanOf(t) ==
    IF Len(t) = 0 THEN [kind |-> "nan", correct |-> 0, total |-> 0, error |-> "none"]
    ELSE [kind |-> "mean", correct |-> Cardinality({k \in DOMAIN t : t[k]}),
          total |-> Len(t), error |-> "none"]

\* The warnings of one sentence: one per token that is not in the vocabulary.
RECURSIVE SenWarnings(_)
SenWarnings(sen) ==
    IF sen = <<>> THEN <<>>
    ELSE (IF InVocab(sen[1]) THEN <<>> ELSE <<sen[1]>>) \o SenWarnings(Tail(sen))

create_unk_sen_mask_always(ignore_unk) ==
    [mask |-> [k \in 1..Len(corpus) |-> SenWarnings(corpus[k].sen) = <<>>],
     warnings |-> Flatten([k \in 1..Len(corpus) |-> SenWarnings(corpus[k].sen)])]

create_unk_sen_mask_first_token(ignore_unk) ==
    IF ~ignore_unk
    THEN [mask |-> [k \in 1..Len(corpus) |-> TRUE], warnings |-> <<>>]
    ELSE [mask |-> [k \in 1..Len(corpus) |-> InVocab(corpus[k].sen[1])],
          warnings |-> Flatten([k \in 1..Len(corpus) |-> SenWarnings(corpus[k].sen)])]

\* create_unk_sen_mask(corpus, ignore_unk): the mask and the warnings emitted.
create_unk_sen_mask(ignore_unk) ==
    IF ~ignore_unk
    THEN [mask |-> [k \in 1..Len(corpus) |-> TRUE], warnings |-> <<>>]
    ELSE [mask |-> [k \in 1..Len(corpus) |-> SenWarnings(corpus[k].sen) = <<>>],
          warnings |-> Flatten([k \in 1..Len(corpus) |-> SenWarnings(corpus[k].sen)])]

LookupColumn_lenient(field) ==
    [raised |-> FALSE,
     ids |-> [k \in 1..Len(corpus) |->
                 [sen_idx |-> k - 1,
                  id |-> IF InVocab(corpus[k][field]) THEN stoi[corpus[k][field]]
                         ELSE stoi["unk"]]]]

\* torch.tensor([corpus.vocab.stoi[ex.<field>] for ex in corpus]): the ids in
\* corpus order, each with the sentence it comes from; raised when a lookup
\* fails.
LookupColumn(field) ==
    [raised |-> \E k \in 1..Len(corpus) : stoi_getitem(corpus[k][field]).raised,
     ids |-> [k \in 1..Len(corpus) |->
                 [sen_idx |-> k - 1, id |-> stoi_getitem(corpus[k][field]).id]]]

single_context_accuracy_strict(acts, tids, ctids) ==
    LET ind == [k \in 1..Len(acts) |->
                   Dot(decoder_w[tids[k].id], ActValue(acts[k], "sen")) + decoder_b[tids[k].id]
                   > Dot(decoder_w[ctids[k].id], ActValue(acts[k], "sen")) + decoder_b[ctids[k].id]]
    IN IF Len(acts) = 1
       THEN [indicators |-> <<>>, result |-> Raised("RuntimeError")]
       ELSE [indicators |-> ind, result |-> MeanOf(ind)]

\* single_context_accuracy(activations, token_ids, counter_token_ids).  With a
\* single row, squeeze() leaves a 0-dimensional tensor and the in-place
\* `logits += decoder_b` (decoder_b of shape [1]) raises a RuntimeError.
single_context_accuracy(acts, tids, ctids) ==
    LET ind == [k \in 1..Len(acts) |->
                   Dot(decoder_w[tids[k].id], ActValue(acts[k], "sen")) + decoder_b[tids[k].id]
                   >= Dot(decoder_w[ctids[k].id], ActValue(acts[k], "sen")) + decoder_b[ctids[k].id]]
    IN IF Len(acts) = 1
       THEN [indicators |-> <<>>, result |-> Raised("RuntimeError")]
       ELSE [indicators |-> ind, result |-> MeanOf(ind)]

\* activations @ decoder_w.t() + decoder_b, for one row: token id -> logit.
FullLogits(v) == [j \in VocabIds |-> Dot(v, decoder_w[j]) + decoder_b[j]]

\* One entry of the tensor compared in the full-probability branch.
FullIndicator(a, b, t) == LogSoftmaxGeq(FullLogits(a), FullLogits(b), t)

\* One entry of the tensor compared in the restricted branch.
RestrictedIndicator(a, b, t) == Dot(decoder_w[t], a) >= Dot(decoder_w[t], b)

dual_context_accuracy_strict(acts, cacts, tids, use_full_model_probs) ==
    LET ind == [k \in 1..Len(acts) |->
                   IF use_full_model_probs
                   THEN ~FullIndicator(ActValue(cacts[k], "counter_sen"),
                                       ActValue(acts[k], "sen"), tids[k].id)
                   ELSE ~RestrictedIndicator(ActValue(cacts[k], "counter_sen"),
                                             ActValue(acts[k], "sen"), tids[k].id)]
    IN [indicators |-> ind, result |-> MeanOf(ind)]

\* dual_context_accuracy(activations, counter_activations, token_ids,
\* use_full_model_probs).
dual_context_accuracy(acts, cacts, tids, use_full_model_probs) ==
    LET ind == [k \in 1..Len(acts) |->
                   IF use_full_model_probs
                   THEN FullIndicator(ActValue(acts[k], "sen"),
                                      ActValue(cacts[k], "counter_sen"), tids[k].id)
                   ELSE RestrictedIndicator(ActValue(acts[k], "sen"),
                                            ActValue(cacts[k], "counter_sen"), tids[k].id)]
    IN [indicators |-> ind, result |-> MeanOf(ind)]

\* calc_accuracy(corpus, activations, counter_activations, use_full_model_probs,
\* ignore_unk): the values of its locals when it returns or raises.
calc_accuracy(acts, cacts, has_counter, use_full_model_probs, ignore_unk) ==
    LET m == create_unk_sen_mask(ignore_unk)
        tok == LookupColumn("token")
        ctok == LookupColumn("counter_token")
        macts == MaskSelect(acts, m.mask)
        mtids == MaskSelect(tok.ids, m.mask)
        none == [mask |-> m.mask, warnings |-> m.warnings, acc_activations |-> <<>>,
                 acc_counter_activations |-> <<>>, token_ids |-> <<>>,
                 counter_token_ids |-> <<>>, indicators |-> <<>>,
                 result |-> NoResult]
    IN CASE Len(acts) # Len(m.mask) ->
                [none EXCEPT !.result = Raised("IndexError")]
         [] Len(acts) = Len(m.mask) /\ tok.raised ->
                [none EXCEPT !.acc_activations = macts,
                             !.result = Raised("VocabLookupError")]
         [] Len(acts) = Len(m.mask) /\ ~tok.raised /\ ~has_counter /\ ctok.raised ->
                [none EXCEPT !.acc_activations = macts, !.token_ids = mtids,
                             !.result = Raised("VocabLookupError")]
         [] Len(acts) = Len(m.mask) /\ ~tok.raised /\ ~has_counter /\ ~ctok.raised ->
                LET mctids == MaskSelect(ctok.ids, m.mask)
                    r == single_context_accuracy(macts, mtids, mctids)
                IN [none EXCEPT !.acc_activations = macts, !.token_ids = mtids,
                                !.counter_token_ids = mctids,
                                !.indicators = r.indicators, !.result = r.result]
         [] Len(acts) = Len(m.mask) /\ ~tok.raised /\ has_counter
                                    /\ Len(cacts) # Len(m.mask) ->
                [none EXCEPT !.acc_activations = macts, !.token_ids = mtids,
                             !.result = Raised("IndexError")]
         [] Len(acts) = Len(m.mask) /\ ~tok.raised /\ has_counter
                                    /\ Len(cacts) = Len(m.mask) ->
                LET mcacts == MaskSelect(cacts, m.mask)
                    r == dual_context_accuracy(macts, mcacts, mtids, use_full_model_probs)
                IN [none EXCEPT !.acc_activations = macts, !.token_ids = mtids,
                                !.acc_counter_activations = mcacts,
                                !.indicators = r.indicators, !.result = r.result]

\* calc_final_hidden(corpus): the final_token rows of slot (top_layer, "hx").
CalcFinalHidden ==
    /\ pc = "run"
    /\ \E order \in BatchOrders(SeqFromTo(0, Len(corpus) - 1), "sen") :
          activations' = simple_extract(order, SelFinalToken, "sen")
    /\ pc' = IF opts.counter THEN "counter" ELSE "accuracy"
    /\ UNCHANGED <<corpus, xvars, mvars, ivars, opts, batch, counter_activations, mask,
                   warnings, acc_activations, acc_counter_activations, token_ids,
                   counter_token_ids, indicators, result, rvars>>

\* calc_final_hidden(corpus, sen_column="counter_sen", selection_func), run
\* when calc_counter_sen(subtask) holds.
CalcCounterHidden ==
    /\ pc = "counter"
    /\ \E order \in BatchOrders(SeqFromTo(0, Len(corpus) - 1), "counter_sen") :
          counter_activations' = simple_extract(order, SelCounterFinalToken, "counter_sen")
    /\ pc' = "accuracy"
    /\ UNCHANGED <<corpus, xvars, mvars, ivars, opts, batch, activations, mask,
                   warnings, acc_activations, acc_counter_activations, token_ids,
                   counter_token_ids, indicators, result, rvars>>

\* calc_accuracy(...), the last step of run_single_corpus.
CalcAccuracy ==
    /\ pc = "accuracy"
    /\ LET r == calc_accuracy(activations, counter_activations, opts.counter,
                              opts.use_full_model_probs, opts.ignore_unk)
       IN /\ mask' = r.mask
          /\ warnings' = r.warnings
          /\ acc_activations' = r.acc_activations
          /\ acc_counter_activations' = r.acc_counter_activations
          /\ token_ids' = r.token_ids
          /\ counter_token_ids' = r.counter_token_ids
          /\ indicators' = r.indicators
          /\ result' = r.result
    /\ pc' = "done"
    /\ UNCHANGED <<corpus, xvars, mvars, ivars, opts, batch, activations,
                   counter_activations, rvars>>

NextTask == CalcFinalHidden \/ CalcCounterHidden \/ CalcAccuracy

-----------------------------------------------------------------------------
(* Runs of run_single_corpus.                                               *)
(*                                                                          *)
(* SpecUnk varies what the vocabulary covers: "z" is not in the vocabulary, *)
(* sentences have one or two tokens, of which none, one or both are         *)
(* missing, and the candidate tokens are present or missing.  The model's   *)
(* numbers are fixed.                                                       *)
(*                                                                          *)
(* SpecAcc varies the numbers: the hidden states of both contexts, the      *)
(* candidate tokens and the decoder bias.  The candidate tokens are in the  *)
(* vocabulary; a sentence is either in the vocabulary or the single missing *)
(* token "z", and ignore_unk is set, so that the mask retains any subset.   *)

UnkItems ==
    {Item(s, <<"b">>, tk, ct) :
        s \in {<<"a">>, <<"a", "z">>, <<"z", "z">>}, tk \in {"a", "z"}, ct \in {"b", "z"}}

\* The decoder of the runs: the weight row of token id 1 is all ones, the
\* others are zero.
DecoderW == [j \in VocabIds |-> ConstVec(IF j = 1 THEN 1 ELSE 0)]

ZeroBias == [j \in VocabIds |-> 0]

InitUnk ==
    /\ pc = "run"
    /\ corpus \in UNION {[1..n -> UnkItems] : n \in 1..MaxUnkSens}
    /\ opts \in [ignore_unk : BOOLEAN, use_full_model_probs : {TRUE},
                 counter : BOOLEAN, add_dec_bias : {FALSE}]
    /\ hx = [k \in 1..Len(corpus) |-> ConstVec(1)]
    /\ chx = [k \in 1..Len(corpus) |-> ConstVec(0)]
    /\ decoder_w = DecoderW
    /\ decoder_b = ZeroBias
    /\ batch = <<>>
    /\ activations = <<>> /\ counter_activations = <<>>
    /\ mask = <<>> /\ warnings = <<>>
    /\ acc_activations = <<>> /\ acc_counter_activations = <<>>
    /\ token_ids = <<>> /\ counter_token_ids = <<>>
    /\ indicators = <<>> /\ result = NoResult
    /\ XIdle /\ IIdle /\ RIdle

SpecUnk == InitUnk /\ [][NextTask]_vars

AccItems(single) ==
    {Item(s, <<"b">>, tk, ct) :
        s \in {<<"a", "b">>, <<"z">>}, tk \in {"a", "b"},
        ct \in (IF single THEN {"a", "b"} ELSE {"b"})}

InitAcc ==
    /\ pc = "run"
    /\ opts \in [ignore_unk : {TRUE}, use_full_model_probs : BOOLEAN,
                 counter : BOOLEAN, add_dec_bias : {FALSE}]
    /\ ~opts.counter => opts.use_full_model_probs
    /\ corpus \in UNION {[1..n -> AccItems(~opts.counter)] : n \in 1..MaxAccSens}
    /\ hx \in [1..Len(corpus) -> Vectors({0, 1})]
    /\ chx \in [1..Len(corpus) ->
                   (IF opts.counter THEN {ConstVec(0), ConstVec(1)} ELSE {ConstVec(0)})]
    /\ decoder_w = DecoderW
    /\ decoder_b \in {ZeroBias, [j \in VocabIds |-> IF j = 0 THEN 1 ELSE 0]}
    /\ batch = <<>>
    /\ activations = <<>> /\ counter_activations = <<>>
    /\ mask = <<>> /\ warnings = <<>>
    /\ acc_activations = <<>> /\ acc_counter_activations = <<>>
    /\ token_ids = <<>> /\ counter_token_ids = <<>>
    /\ indicators = <<>> /\ result = NoResult
    /\ XIdle /\ IIdle /\ RIdle

SpecAcc == InitAcc /\ [][NextTask]_vars

-----------------------------------------------------------------------------
(* downstream/warstadt/downstream.py: warstadt_downstream.                  *)
(*                                                                          *)
(* warstadt_init creates the iterator with batch_size=len(corpus) and       *)
(* sort=True: its single batch holds the whole corpus, ordered by sentence  *)
(* length (the variable batch).  create_iterator and the helpers of         *)
(* ..misc (calc_final_hidden, create_unk_sen_mask) are not among the source *)
(* files and are modelled from the specification: calc_final_hidden yields  *)
(* one final state per sentence in original corpus order (4.3, 4.5), the    *)
(* mask marks the sentences of all_sens with a token outside the            *)
(* vocabulary.  Here mask[k] = TRUE means "sentence k is skipped", as in    *)
(* the code (`classes[~mask]`).                                             *)

\* create_iterator(corpus, batch_size=len(corpus), sort=True): the orders of
\* the single batch.  Sorted by the length of `sen`, ascending or descending;
\* sentences of equal length keep their corpus order.
IteratorOrders ==
    {p \in BatchOrders(SeqFromTo(0, Len(corpus) - 1), "sen") :
        \A a, b \in 1..Len(p) :
            (a < b /\ Len(corpus[p[a] + 1].sen) = Len(corpus[p[b] + 1].sen)) => p[a] < p[b]}

\* ..misc.create_unk_sen_mask(corpus.vocab, all_sens)
misc_create_unk_sen_mask ==
    [k \in 1..Len(corpus) |-> \E i \in 1..Len(corpus[k].sen) : ~InVocab(corpus[k].sen[i])]

\* torch.tensor([corpus.vocab.stoi[npi] for npi in batch.npi]): the ids in
\* the order of the batch.
BatchClasses ==
    [raised |-> \E k \in 1..Len(batch) : stoi_getitem(corpus[batch[k] + 1].token).raised,
     ids |-> [k \in 1..Len(batch) |->
                 [sen_idx |-> batch[k], id |-> stoi_getitem(corpus[batch[k] + 1].token).id]]]

Negate(m) == [k \in DOMAIN m |-> ~m[k]]

\* One entry of probs (of wprobs, with the counter rows).
WarstadtScore(row, column, cls, add_dec_bias) ==
    Dot(decoder_w[cls.id], ActValue(row, column))
    + (IF add_dec_bias THEN decoder_b[cls.id] ELSE 0)

\* The body of `for batch in iterator`, lines 119-147.
warstadt_batch(ignore_unk, add_dec_bias) ==
    LET final_hidden == simple_extract(batch, SelFinalToken, "sen")
        wfinal_hidden == simple_extract(batch, SelCounterFinalToken, "counter_sen")
        classes == BatchClasses
        m == IF ignore_unk THEN misc_create_unk_sen_mask
             ELSE [k \in 1..Len(corpus) |-> FALSE]
        keep == Negate(m)
        fh == MaskSelect(final_hidden, keep)
        wfh == MaskSelect(wfinal_hidden, keep)
        cls == MaskSelect(classes.ids, keep)
        ind == [k \in 1..Len(cls) |->
                   WarstadtScore(fh[k], "sen", cls[k], add_dec_bias)
                   > WarstadtScore(wfh[k], "counter_sen", cls[k], add_dec_bias)]
    IN IF classes.raised
       THEN [mask |-> <<>>, acc_activations |-> <<>>, acc_counter_activations |-> <<>>,
             token_ids |-> <<>>, indicators |-> <<>>, result |-> Raised("VocabLookupError")]
       ELSE [mask |-> m, acc_activations |-> fh, acc_counter_activations |-> wfh,
             token_ids |-> cls, indicators |-> ind, result |-> MeanOf(ind)]

WarstadtItems ==
    {Item(s, <<"b">>, tk, "b") : s \in {<<"a">>, <<"a", "b">>, <<"z">>}, tk \in {"a", "b"}}

InitWarstadt ==
    /\ pc = "warstadt"
    /\ corpus \in UNION {[1..n -> WarstadtItems] : n \in 1..MaxWarstadtSens}
    /\ batch \in IteratorOrders
    /\ opts \in [ignore_unk : BOOLEAN, use_full_model_probs : {FALSE},
                 counter : {TRUE}, add_dec_bias : BOOLEAN]
    /\ hx \in [1..Len(corpus) -> Vectors({0, 1})]
    /\ chx = [k \in 1..Len(corpus) |-> ConstVec(0)]
    /\ decoder_w = DecoderW
    /\ decoder_b = [j \in VocabIds |-> IF j = 0 THEN 1 ELSE 0]
    /\ activations = <<>> /\ counter_activations = <<>>
    /\ mask = <<>> /\ warnings = <<>>
    /\ acc_activations = <<>> /\ acc_counter_activations = <<>>
    /\ token_ids = <<>> /\ counter_token_ids = <<>>
    /\ indicators = <<>> /\ result = NoResult
    /\ XIdle /\ IIdle /\ RIdle

\* One environment of warstadt_downstream: its single batch.
WarstadtBatch ==
    /\ pc = "warstadt"
    /\ LET r == warstadt_batch(opts.ignore_unk, opts.add_dec_bias)
       IN /\ mask' = r.mask
          /\ acc_activations' = r.acc_activations
          /\ acc_counter_activations' = r.acc_counter_activations
          /\ token_ids' = r.token_ids
          /\ indicators' = r.indicators
          /\ result' = r.result
    /\ activations' = simple_extract(batch, SelFinalToken, "sen")
    /\ counter_activations' = simple_extract(batch, SelCounterFinalToken, "counter_sen")
    /\ pc' = "done"
    /\ UNCHANGED <<corpus, xvars, mvars, ivars, opts, batch, warnings, counter_token_ids, rvars>>

NextWarstadt == WarstadtBatch

SpecWarstadt == InitWarstadt /\ [][NextWarstadt]_vars

-----------------------------------------------------------------------------
(* C2 *)

\* The retain mask of the evaluation that ran: DownstreamTask's mask retains
\* where TRUE, warstadt_downstream's where FALSE.
Keep == IF batch = <<>> THEN mask ELSE Negate(mask)

\* The sen_idx of the retained sentences, in corpus order.
Retained == MaskSelect(SeqFromTo(0, Len(corpus) - 1), Keep)

LastRow(k, column) == [sen_idx |-> k - 1, w_idx |-> Len(corpus[k][column]) - 1]

\* C2: the final-state matrix has one row per sentence, row i being the state
\* at the last token of sentence i in corpus order (for the counter sentences
\* as well), and after masking row i of the activations, row i of the counter
\* activations and entry i of the target ids belong to the i-th sentence the
\* mask retains.
C2_RowsAligned ==
    (pc = "done" /\ result.kind \in {"mean", "nan"}) =>
        /\ activations = [k \in 1..Len(corpus) |-> LastRow(k, "sen")]
        /\ opts.counter =>
              counter_activations = [k \in 1..Len(corpus) |-> LastRow(k, "counter_sen")]
        /\ [k \in 1..Len(acc_activations) |-> acc_activations[k].sen_idx] = Retained
        /\ [k \in 1..Len(token_ids) |-> token_ids[k].sen_idx] = Retained
        /\ opts.counter =>
              [k \in 1..Len(acc_counter_activations) |->
                  acc_counter_activations[k].sen_idx] = Retained

-----------------------------------------------------------------------------
(* C3 *)

SenInVocab(k) == \A i \in 1..Len(corpus[k].sen) : InVocab(corpus[k].sen[i])

SenIdxOf(rows) == [k \in 1..Len(rows) |-> rows[k].sen_idx]

-----------------------------------------------------------------------------
(* C4 *)

SenTokenMissing == \E k \in 1..Len(corpus) : ~SenInVocab(k)

\* A candidate token the evaluation looks up is missing: a target token, or,
\* in a single-context evaluation, a counter token.
CandidateMissing ==
    \E k \in 1..Len(corpus) :
        \/ ~InVocab(corpus[k].token)
        \/ ~opts.counter /\ ~InVocab(corpus[k].counter_token)

-----------------------------------------------------------------------------
(* C5 *)

\* C5, for the corpora whose missing tokens are tokens of the sentences
\* (every target and counter token is in the vocabulary): with ignore_unk
\* true a missing token never ends the run; exactly the sentences with a
\* missing token are excluded, every missing token is named by a warning,
\* every warning names a missing token, and the accuracy is taken over the
\* remaining sentences.
C5_IgnoreUnkNeverFails ==
    (pc = "done" /\ opts.ignore_unk /\ SenTokenMissing /\ ~CandidateMissing) =>
        /\ result.kind # "raised"
        /\ result.total = Len(Retained)
        /\ \A k \in 1..Len(corpus) : mask[k] <=> SenInVocab(k)
        /\ \A k \in 1..Len(corpus) : \A i \in 1..Len(corpus[k].sen) :
              ~InVocab(corpus[k].sen[i]) => corpus[k].sen[i] \in Range(warnings)
        /\ \A w \in Range(warnings) : ~InVocab(w)

-----------------------------------------------------------------------------
(* C9 *)

\* C9: every accuracy the evaluator returns is a number in [0, 1], the mean
\* of the indicator over the retained sentences, whatever the mask retains
\* (nothing included).
C9_AccuracyInUnitInterval ==
    (pc = "done" /\ result.kind # "raised") =>
        /\ result.kind = "mean"
        /\ result.total = Len(Retained)
        /\ 0 <= result.correct /\ result.correct <= result.total
        /\ result.correct = Cardinality({j \in 1..Len(indicators) : indicators[j]})

-----------------------------------------------------------------------------
(* C6 *)

\* decoder_w[id(w)] . hx(sentence k) + decoder_b[id(w)], from the model's
\* inputs.
Logit(k, w) == Dot(hx[k], decoder_w[stoi[w]]) + decoder_b[stoi[w]]

-----------------------------------------------------------------------------
(* C7 *)

\* C7: every dual-context comparison scores the same target id in both
\* contexts and counts the example correct iff the score of context A is at
\* least that of context B.  Stated for warstadt_downstream (probs, wprobs).
C7_DualContextTieCorrect ==
    (pc = "done" /\ result.kind = "mean") =>
        \A j \in 1..Len(indicators) :
            indicators[j] <=>
                WarstadtScore(acc_activations[j], "sen", token_ids[j], opts.add_dec_bias)
                >= WarstadtScore(acc_counter_activations[j], "counter_sen", token_ids[j],
                                 opts.add_dec_bias)

-----------------------------------------------------------------------------
(* C8 *)

\* The indicator of retained example j in the mode that did NOT run.
OtherModeIndicator(j) ==
    LET a == ActValue(acc_activations[j], "sen")
        b == ActValue(acc_counter_activations[j], "counter_sen")
    IN IF opts.use_full_model_probs
       THEN RestrictedIndicator(a, b, token_ids[j].id)
       ELSE FullIndicator(a, b, token_ids[j].id)

\* The two contexts of retained example j give the same logits over the
\* vocabulary up to their order, hence the same log-normaliser.
SameNormaliser(j) ==
    LET la == FullLogits(ActValue(acc_activations[j], "sen"))
        lb == FullLogits(ActValue(acc_counter_activations[j], "counter_sen"))
    IN SameBag([k \in DOMAIN IdSeq |-> la[IdSeq[k]]], [k \in DOMAIN IdSeq |-> lb[IdSeq[k]]])

DualDone == pc = "done" /\ opts.counter /\ result.kind \in {"mean", "nan"}

\* C8 as stated: with an all-zero bias the full-probability mode and the
\* restricted mode give every example the same indicator.
C8_ModesAgreeZeroBias ==
    (DualDone /\ decoder_b = ZeroBias) =>
        \A j \in 1..Len(indicators) : indicators[j] <=> OtherModeIndicator(j)

\* C8 as amended: with an all-zero bias the two modes give the same indicator
\* to every example whose two contexts have the same log-normaliser (the
\* same logits over the vocabulary up to order, in particular equal
\* contexts).
C8_ModesAgreeSameNormaliser ==
    (DualDone /\ decoder_b = ZeroBias) =>
        \A j \in 1..Len(indicators) :
            SameNormaliser(j) => (indicators[j] <=> OtherModeIndicator(j))

\* A dual-context evaluation with zero bias of an example whose two contexts
\* are the same non-zero state: a tie in both modes, counted correct.
C8_Witness ==
    /\ DualDone /\ decoder_b = ZeroBias
    /\ Len(indicators) >= 1
    /\ ActValue(acc_activations[1], "sen") = ConstVec(1)
    /\ ActValue(acc_counter_activations[1], "counter_sen") = ConstVec(1)
    /\ SameNormaliser(1)
    /\ indicators[1] /\ OtherModeIndicator(1)

-----------------------------------------------------------------------------
(* InitStates (activations/init_states.py)                                  *)
(*                                                                          *)
(* A tensor is [shape, zeros, array_type]: its shape as a sequence of       *)
(* dimensions, whether it is zero-filled, and the library that holds it.    *)
(* A bundle (FullActivationDict) is a function from layer keys to           *)
(* functions from names ("hx", "cx") to tensors.                            *)

Tensor(shape, zeros, array_type) ==
    [shape |-> shape, zeros |-> zeros, array_type |-> array_type]

\* len(t) of a numpy array or torch tensor: its leading dimension.
py_len(t) == Head(t.shape)

Accepted == [kind |-> "returned", text |-> "none", field |-> "none",
             actual |-> 0, expected |-> 0]
AssertionError(text) == [kind |-> "AssertionError", text |-> text, field |-> "none",
                         actual |-> 0, expected |-> 0]
\* f'... {field}: {actual}, should be {expected}'
SizeAssertionError(text, field, actual, expected) ==
    [kind |-> "AssertionError", text |-> text, field |-> field,
     actual |-> actual, expected |-> expected]
KeyError == [kind |-> "KeyError", text |-> "none", field |-> "none",
             actual |-> 0, expected |-> 0]

\* _validate without the check of cx.
RECURSIVE validate_layers_hx_only(_, _, _)
validate_layers_hx_only(states, layers, szs) ==
    IF layers = <<>> THEN Accepted
    ELSE LET layer == Head(layers) IN
         IF layer \notin DOMAIN states THEN KeyError
         ELSE LET init_state_dict == states[layer] IN
              IF ~("hx" \in DOMAIN init_state_dict /\ "cx" \in DOMAIN init_state_dict)
              THEN AssertionError("Initial layer names not correct, should be hx and cx")
              ELSE IF py_len(init_state_dict["hx"]) # szs[layer].h
              THEN SizeAssertionError("Initial activation size for hx is incorrect", "hx",
                                      py_len(init_state_dict["hx"]), szs[layer].h)
              ELSE validate_layers_hx_only(states, Tail(layers), szs)

\* The loop of _validate over self.sizes.items(), in the order of the layers.
RECURSIVE validate_layers(_, _, _)
validate_layers(states, layers, szs) ==
    IF layers = <<>> THEN Accepted
    ELSE LET layer == Head(layers) IN
         IF layer \notin DOMAIN states THEN KeyError
         ELSE LET init_state_dict == states[layer] IN
              IF ~("hx" \in DOMAIN init_state_dict /\ "cx" \in DOMAIN init_state_dict)
              THEN AssertionError("Initial layer names not correct, should be hx and cx")
              ELSE IF py_len(init_state_dict["hx"]) # szs[layer].h
              THEN SizeAssertionError("Initial activation size for hx is incorrect", "hx",
                                      py_len(init_state_dict["hx"]), szs[layer].h)
              ELSE IF py_len(init_state_dict["cx"]) # szs[layer].c
              THEN SizeAssertionError("Initial activation size for cx is incorrect", "cx",
                                      py_len(init_state_dict["cx"]), szs[layer].c)
              ELSE validate_layers(states, Tail(layers), szs)

\* InitStates._validate: what it raises, or Accepted.
_validate(states, n_layers, szs) ==
    IF Cardinality(DOMAIN states) # n_layers
    THEN AssertionError("Number of initial layers not correct")
    ELSE validate_layers(states, SeqFromTo(0, n_layers - 1), szs)

\* InitStates._create_zero_state
_create_zero_state(size, bsz, np) ==
    IF bsz # NoBatchSize
    THEN IF np THEN Tensor(<<bsz, size>>, TRUE, "numpy")
               ELSE Tensor(<<bsz, size>>, TRUE, "torch")
    ELSE IF np THEN Tensor(<<size>>, TRUE, "numpy")
               ELSE Tensor(<<size>>, TRUE, "torch")

\* create_zero_init_states with the sizes of hx and cx exchanged.
create_zero_init_states_swapped(n_layers, szs, bsz, np) ==
    [l \in 0..(n_layers - 1) |->
        [name \in {"cx", "hx"} |->
            IF name = "cx" THEN _create_zero_state(szs[l].h, bsz, np)
                           ELSE _create_zero_state(szs[l].c, bsz, np)]]

\* InitStates.create_zero_init_states
create_zero_init_states(n_layers, szs, bsz, np) ==
    [l \in 0..(n_layers - 1) |->
        [name \in {"cx", "hx"} |->
            IF name = "cx" THEN _create_zero_state(szs[l].c, bsz, np)
                           ELSE _create_zero_state(szs[l].h, bsz, np)]]

\* ---- the files load_pickle may find ----

\* Shapes of a pickled state: a vector, or a batch of vectors.
PickledShapes ==
    {<<n>> : n \in 1..MaxSize} \cup {<<b, n>> : b \in 1..MaxBatch, n \in 1..MaxSize}

Pickled(shape) == Tensor(shape, FALSE, "torch")

\* Any dict holding some of hx and cx.
PickledEntries ==
    {[name \in names |-> Pickled(sh[name])] :
        names \in SUBSET {"hx", "cx"}, sh \in [{"hx", "cx"} -> PickledShapes]}

\* The bundle that fits the model.
FittingBundle(n_layers, szs) ==
    [l \in 0..(n_layers - 1) |->
        [name \in {"hx", "cx"} |->
            IF name = "hx" THEN Pickled(<<szs[l].h>>) ELSE Pickled(<<szs[l].c>>)]]

\* The fitting bundle, the bundles that differ from it in the entry of one
\* layer, and the bundles that hold its entries under other layer keys
\* (a layer dropped, added or renumbered).
PickledBundles(n_layers, szs) ==
    LET fit == FittingBundle(n_layers, szs)
        entry(l) == IF l \in DOMAIN fit THEN fit[l] ELSE fit[0]
    IN {[fit EXCEPT ![l] = e] : l \in 0..(n_layers - 1), e \in PickledEntries}
       \cup {[l \in keys |-> entry(l)] : keys \in SUBSET (0..n_layers)}

StateSizes == [h : 1..MaxSize, c : 1..MaxSize]

InitInitStates ==
    /\ pc = "create"
    /\ num_layers \in 1..MaxLayers
    /\ sizes \in [0..(num_layers - 1) -> StateSizes]
    /\ init_lstm_states_path \in {"None", "init_states.pickle"}
    \* batch_size and use_np_arrays are read by _create_zero_state only
    /\ init_batch_size \in IF init_lstm_states_path = "None"
                          THEN {NoBatchSize} \cup (1..MaxBatch) ELSE {NoBatchSize}
    /\ use_np_arrays \in IF init_lstm_states_path = "None" THEN BOOLEAN ELSE {FALSE}
    /\ init_states = <<>>
    /\ verr = NoValidation
    /\ corpus = <<>>
    /\ XIdle /\ MIdle /\ TIdle /\ RIdle

\* create() with a path: load the pickle, validate it, return it.
CreateFromPickle ==
    /\ pc = "create"
    /\ init_lstm_states_path # "None"
    /\ \E loaded \in PickledBundles(num_layers, sizes) :
          /\ init_states' = loaded
          /\ verr' = _validate(loaded, num_layers, sizes)
    /\ pc' = "done"
    /\ UNCHANGED <<corpus, xvars, mvars, tvars, num_layers, sizes,
                   init_lstm_states_path, init_batch_size, use_np_arrays, rvars>>

\* create() without a path: zero-initialised states, not validated.
CreateZero ==
    /\ pc = "create"
    /\ init_lstm_states_path = "None"
    /\ init_states' = create_zero_init_states(num_layers, sizes, init_batch_size,
                                              use_np_arrays)
    /\ pc' = "done"
    /\ UNCHANGED <<corpus, xvars, mvars, tvars, num_layers, sizes,
                   init_lstm_states_path, init_batch_size, use_np_arrays, verr, rvars>>

\* _validate applied to the bundle create() built.
ValidateCreated ==
    /\ pc = "done"
    /\ init_lstm_states_path = "None"
    /\ verr' = _validate(init_states, num_layers, sizes)
    /\ pc' = "validated"
    /\ UNCHANGED <<corpus, xvars, mvars, tvars, num_layers, sizes,
                   init_lstm_states_path, init_batch_size, use_np_arrays, init_states, rvars>>

NextInitStates == CreateFromPickle \/ CreateZero \/ ValidateCreated

SpecInitStates == InitInitStates /\ [][NextInitStates]_vars

-----------------------------------------------------------------------------
(* C10 *)

Validated == pc = "done" /\ init_lstm_states_path # "None"

Layers == 0..(num_layers - 1)

\* What is wrong with the entry of layer l, in the order _validate looks.
LayerFault(l) ==
    IF l \notin DOMAIN init_states THEN "key"
    ELSE IF ~({"hx", "cx"} \subseteq DOMAIN init_states[l]) THEN "names"
    ELSE IF py_len(init_states[l]["hx"]) # sizes[l].h THEN "hx"
    ELSE IF py_len(init_states[l]["cx"]) # sizes[l].c THEN "cx"
    ELSE "none"

FaultyLayers == {l \in Layers : LayerFault(l) # "none"}

FirstFaultyLayer == CHOOSE l \in FaultyLayers : \A m \in FaultyLayers : l <= m

CountDiffers == Cardinality(DOMAIN init_states) # num_layers

\* The cases of the claim: the layer count differs, an entry lacks hx or cx,
\* or the length of a vector differs from the size expected.
LacksName == \E l \in DOMAIN init_states : ~({"hx", "cx"} \subseteq DOMAIN init_states[l])
LengthDiffers ==
    \E l \in DOMAIN init_states \cap Layers :
        \/ "hx" \in DOMAIN init_states[l] /\ py_len(init_states[l]["hx"]) # sizes[l].h
        \/ "cx" \in DOMAIN init_states[l] /\ py_len(init_states[l]["cx"]) # sizes[l].c

\* The (layer, field, expected, actual) of the length mismatch that makes
\* _validate(b) fail; <<>> when it does not fail on a length.
Offender(b) ==
    LET bad == {l \in Layers :
                   \/ l \notin DOMAIN b
                   \/ ~({"hx", "cx"} \subseteq DOMAIN b[l])
                   \/ py_len(b[l]["hx"]) # sizes[l].h
                   \/ py_len(b[l]["cx"]) # sizes[l].c}
        first == CHOOSE l \in bad : \A m \in bad : l <= m
    IN IF Cardinality(DOMAIN b) # num_layers \/ bad = {} THEN <<>>
       ELSE IF first \notin DOMAIN b \/ ~({"hx", "cx"} \subseteq DOMAIN b[first]) THEN <<>>
       ELSE IF py_len(b[first]["hx"]) # sizes[first].h
            THEN <<first, "hx", sizes[first].h, py_len(b[first]["hx"])>>
            ELSE <<first, "cx", sizes[first].c, py_len(b[first]["cx"])>>

-----------------------------------------------------------------------------
(* C11 *)

ZeroCreated == pc \in {"done", "validated"} /\ init_lstm_states_path = "None"

\* The shape create() gives a zero state of the given size.
ZeroShape(size) ==
    IF init_batch_size = NoBatchSize THEN <<size>> ELSE <<init_batch_size, size>>

\* C11: the bundle of zero states has exactly the layer keys 0..num_layers-1,
\* each with exactly hx and cx, both zero-filled, hx of size sizes[l].h and
\* cx of size sizes[l].c; the shape is (B, size) when a batch size B is
\* configured and (size,) when none is.
C11_CreateZeroShapes ==
    ZeroCreated =>
        /\ DOMAIN init_states = Layers
        /\ \A l \in Layers :
              /\ DOMAIN init_states[l] = {"hx", "cx"}
              /\ init_states[l]["hx"].zeros /\ init_states[l]["cx"].zeros
              /\ init_states[l]["hx"].shape = ZeroShape(sizes[l].h)
              /\ init_states[l]["cx"].shape = ZeroShape(sizes[l].c)

\* A two-layer model whose hx and cx differ in size in layer 1, with a batch
\* size: the states have shape (B, h) and (B, c).
C11_Witness ==
    /\ pc = "done" /\ init_lstm_states_path = "None"
    /\ num_layers = 2 /\ init_batch_size = 2
    /\ sizes[1].h = 1 /\ sizes[1].c = 2
    /\ init_states[1]["hx"] = Tensor(<<2, 1>>, TRUE, "torch")
    /\ init_states[1]["cx"] = Tensor(<<2, 2>>, TRUE, "torch")

-----------------------------------------------------------------------------
(* C12 *)

\* An item whose sentence has no token.
EmptyExample == [sen |-> <<>>, counter_sen |-> <<>>, sen_idx |-> 0]

\* C12: final_token(p, sentence) is true iff p is the last position of the
\* sentence, L - 1; so an extraction with final_token keeps, for every
\* sentence processed, exactly one row, the state at position L - 1, and of
\* a sentence without tokens it would keep none.
C12_FinalTokenSelectsLast ==
    sel = SelFinalToken =>
        /\ \A k \in 1..Len(corpus) : \A p \in 0..MaxSenLen :
              SelectionFunc(sel, p, Example(k)) <=> (p = Len(corpus[k].sen) - 1)
        /\ \A p \in 0..MaxSenLen : ~SelectionFunc(sel, p, EmptyExample)
        /\ \A k \in 1..Len(ranges) :
              /\ ranges[k][2] - ranges[k][1] = 1
              /\ store[ranges[k][2]] = [sen_idx |-> k - 1, w_idx |-> Len(corpus[k].sen) - 1]

\* Sentences of 3 and of 5 tokens: rows (0, 2) and (1, 4).
C12_Witness ==
    /\ pc = "extracted"
    /\ sel = SelFinalToken
    /\ Len(corpus) = 2 /\ Len(corpus[1].sen) = 3 /\ Len(corpus[2].sen) = 5
    /\ store = <<[sen_idx |-> 0, w_idx |-> 2], [sen_idx |-> 1, w_idx |-> 4]>>
    /\ ranges = << <<0, 1>>, <<1, 2>> >>

-----------------------------------------------------------------------------
(* C13 *)

\* C13: first_n(n)(p, sentence) is true iff the sentence's sen_idx is below
\* n, whatever the position p and the length of the sentence; an extraction
\* with first_n(n) keeps every row of the sentences with sen_idx < n and no
\* row of the others, and with n = 0 it keeps no row at all.
C13_FirstNSelectsBySenIdx ==
    sel.name = "first_n" =>
        /\ \A k \in 1..Len(corpus) : \A p \in 0..MaxSenLen :
              SelectionFunc(sel, p, Example(k)) <=> (k - 1 < sel.n)
        /\ \A k \in 1..Len(ranges) :
              ranges[k][2] - ranges[k][1] = (IF k - 1 < sel.n THEN Len(corpus[k].sen) ELSE 0)
        /\ \A j \in 1..Len(store) : store[j].sen_idx < sel.n
        /\ sel.n = 0 => store = <<>>

\* first_n(1) over sentences of 2 and of 1 tokens: both rows of the first
\* sentence, none of the second.
C13_Witness ==
    /\ pc = "extracted"
    /\ sel.name = "first_n" /\ sel.n = 1
    /\ Len(corpus) = 2 /\ Len(corpus[1].sen) = 2 /\ Len(corpus[2].sen) = 1
    /\ store = <<[sen_idx |-> 0, w_idx |-> 0], [sen_idx |-> 0, w_idx |-> 1]>>
    /\ ranges = << <<0, 2>>, <<2, 2>> >>

-----------------------------------------------------------------------------
(* DownstreamTask.run (downstream/tasks/task.py)                            *)
(*                                                                          *)
(* self.corpora is a dict in insertion order: a sequence of subtasks, each  *)
(* holding either a Corpus or a dict of conditions (again in order).  A     *)
(* corpus is represented by what run_single_corpus makes of it: an          *)
(* accuracy, a nan, or an exception.  An entry of results is either a       *)
(* float or a dict from condition to float.                                 *)

SubtaskNames == <<"subtask1", "subtask2", "subtask3", "subtask4">>
ConditionNames == <<"condition1", "condition2", "condition3", "condition4">>

\* What run_single_corpus does with a corpus: the outcomes of calc_accuracy.
CorpusOutcomes == {MeanOf(<<TRUE>>), MeanOf(<<>>), Raised("RuntimeError")}

NoCorpus == NoResult

run_single_corpus(c) == c

FloatEntry(accuracy) == [is_float |-> TRUE, accuracy |-> accuracy, conditions |-> <<>>]
DictEntry(d) == [is_float |-> FALSE, accuracy |-> NoResult, conditions |-> d]

\* d[key] = value
SetItem(d, key, value) ==
    [k \in DOMAIN d \cup {key} |-> IF k = key THEN value ELSE d[k]]

\* d.setdefault(key, default)
SetDefault(d, key, default) == IF key \in DOMAIN d THEN d ELSE SetItem(d, key, default)

\* results[subtask] = {condition: accuracy}: the entry replaced, not extended.
SetConditionFresh(res, subtask, condition, accuracy) ==
    SetItem(res, subtask, DictEntry(SetItem(<<>>, condition, accuracy)))

\* results.setdefault(subtask, {})[condition] = accuracy
SetCondition(res, subtask, condition, accuracy) ==
    LET r == SetDefault(res, subtask, DictEntry(<<>>))
    IN SetItem(r, subtask, DictEntry(SetItem(r[subtask].conditions, condition, accuracy)))

\* The dicts of conditions a subtask may hold, possibly empty.
ConditionDicts ==
    UNION {[1..n -> CorpusOutcomes] : n \in 0..MaxConditions}

\* A subtask of self.corpora: a Corpus, or a dict of conditions.
SubtaskCorpora ==
    {[is_corpus |-> TRUE, corpus |-> c, conditions |-> <<>>] : c \in CorpusOutcomes}
    \cup {[is_corpus |-> FALSE, corpus |-> NoCorpus, conditions |-> d] : d \in ConditionDicts}

InitRun ==
    /\ pc = "run_loop"
    /\ corpora \in UNION {[1..n -> SubtaskCorpora] : n \in 0..MaxSubtasks}
    /\ results = <<>>
    /\ calls = <<>>
    /\ subtask_i = 1 /\ condition_j = 1
    /\ corpus = <<>>
    /\ XIdle /\ MIdle /\ TIdle /\ IIdle

\* isinstance(subtask_corpora, Corpus): one evaluation, a float entry.
RunCorpus ==
    /\ pc = "run_loop"
    /\ subtask_i <= Len(corpora)
    /\ corpora[subtask_i].is_corpus
    /\ LET subtask == SubtaskNames[subtask_i]
           accuracy == run_single_corpus(corpora[subtask_i].corpus)
       IN /\ calls' = Append(calls, [subtask |-> subtask, condition |-> "none"])
          /\ IF accuracy.kind = "raised"
             THEN pc' = "raised" /\ UNCHANGED <<results, subtask_i>>
             ELSE /\ results' = SetItem(results, subtask, FloatEntry(accuracy))
                  /\ subtask_i' = subtask_i + 1
                  /\ pc' = "run_loop"
    /\ UNCHANGED <<corpus, xvars, mvars, tvars, ivars, corpora, condition_j>>

\* One iteration of the loop over the conditions of a subtask.
RunCondition ==
    /\ pc = "run_loop"
    /\ subtask_i <= Len(corpora)
    /\ ~corpora[subtask_i].is_corpus
    /\ condition_j <= Len(corpora[subtask_i].conditions)
    /\ LET subtask == SubtaskNames[subtask_i]
           condition == ConditionNames[condition_j]
           accuracy == run_single_corpus(corpora[subtask_i].conditions[condition_j])
       IN /\ calls' = Append(calls, [subtask |-> subtask, condition |-> condition])
          /\ IF accuracy.kind = "raised"
             THEN pc' = "raised" /\ UNCHANGED <<results, condition_j>>
             ELSE /\ results' = SetCondition(results, subtask, condition, accuracy)
                  /\ condition_j' = condition_j + 1
                  /\ pc' = "run_loop"
    /\ UNCHANGED <<corpus, xvars, mvars, tvars, ivars, corpora, subtask_i>>

\* The conditions of the subtask are exhausted: on to the next subtask.
NextSubtask ==
    /\ pc = "run_loop"
    /\ subtask_i <= Len(corpora)
    /\ ~corpora[subtask_i].is_corpus
    /\ condition_j > Len(corpora[subtask_i].conditions)
    /\ subtask_i' = subtask_i + 1
    /\ condition_j' = 1
    /\ UNCHANGED <<pc, corpus, xvars, mvars, tvars, ivars, corpora, results, calls>>

\* return results
ReturnResults ==
    /\ pc = "run_loop"
    /\ subtask_i > Len(corpora)
    /\ pc' = "returned"
    /\ UNCHANGED <<corpus, xvars, mvars, tvars, ivars, rvars>>

NextRun == RunCorpus \/ RunCondition \/ NextSubtask \/ ReturnResults

SpecRun == InitRun /\ [][NextRun]_vars

-----------------------------------------------------------------------------
(* C14 *)

\* The (subtask, condition) pairs that hold a corpus, in the order of the
\* loops.
CorpusKeys ==
    {[subtask |-> SubtaskNames[i], condition |-> "none"] :
        i \in {k \in 1..Len(corpora) : corpora[k].is_corpus}}
    \cup UNION {{[subtask |-> SubtaskNames[i], condition |-> ConditionNames[j]] :
                    j \in 1..Len(corpora[i].conditions)} :
                i \in {k \in 1..Len(corpora) : ~corpora[k].is_corpus}}

\* The entry results owes subtask i.
EntryAsConfigured(i) ==
    LET name == SubtaskNames[i] IN
    /\ name \in DOMAIN results
    /\ IF corpora[i].is_corpus
       THEN /\ results[name].is_float
            /\ results[name].accuracy = corpora[i].corpus
       ELSE /\ ~results[name].is_float
            /\ DOMAIN results[name].conditions =
                  {ConditionNames[j] : j \in 1..Len(corpora[i].conditions)}
            /\ \A j \in 1..Len(corpora[i].conditions) :
                  results[name].conditions[ConditionNames[j]] = corpora[i].conditions[j]

EvaluatedOnce ==
    /\ {calls[k] : k \in 1..Len(calls)} = CorpusKeys
    /\ Len(calls) = Cardinality(CorpusKeys)

NonEmptySubtasks ==
    {i \in 1..Len(corpora) : corpora[i].is_corpus \/ corpora[i].conditions # <<>>}

-----------------------------------------------------------------------------
(* C15 *)

\* C15: _validate accepts every bundle of zero states create() builds for
\* the same model, with or without a batch size.
C15_ZeroBundleValid ==
    (pc = "validated" /\ init_lstm_states_path = "None") => verr = Accepted

=============================================================================
